---- MODULE Spec2Model ----
(***************************************************************************)
(* Assisted lookup (getNdcWithAssist) and the RAM suggest index of the     *)
(* NDC lookup service.  The repository holds three versions of the         *)
(* sqlite-backup module; the model carries all three and `variant` says    *)
(* which one the process has loaded:                                       *)
(*   "sqlite_backup_js"  src/sqlite-backup.js   (sqlite + sqlite3)         *)
(*   "part_000"          src/unnamed/part_000   (sqlite + sqlite3)         *)
(*   "part_002"          src/unnamed/part_002   (better-sqlite3, sync)     *)
(* One action is one event-loop macrotask together with every promise      *)
(* continuation (microtask) it triggers.                                   *)
(***************************************************************************)
EXTENDS Integers, Sequences, FiniteSets, TLC

Variants == {"sqlite_backup_js", "part_000", "part_002"}

\* The variants whose I/O goes through the promise API of sqlite/sqlite3.
AsyncVariants == {"sqlite_backup_js", "part_000"}

\* In-flight getNdcWithAssist calls.
Calls == {"a", "b"}

\* The two invocations of primaryFn a call can make (part_002 re-invokes).
Invocations == {1, 2}

\* What one invocation of the caller-supplied primaryFn can settle with:
\* a row of the primary table, an empty result, or a rejection.
PrimaryRows == {"P1", "P2"}
PrimaryOutcomes == PrimaryRows \cup {"empty", "fail"}

(***************************************************************************)
(* JS values.  A JS string is a sequence of one-character strings; null    *)
(* and undefined are the two reserved one-element sequences below, which   *)
(* no string over the alphabet equals.                                     *)
(***************************************************************************)
Null == <<"null">>
Undef == <<"undefined">>

IsStr(v) == v # Null /\ v # Undef

\* JS truthiness of a string-or-null value: null, undefined and '' are falsy.
Truthy(v) == IsStr(v) /\ v # <<>>

\* `v || d`
OrElse(v, d) == IF Truthy(v) THEN v ELSE d

\* `String(v || '')`
StrOf(v) == IF Truthy(v) THEN v ELSE <<>>

(***************************************************************************)
(* The backup file at NDC_SQLITE_PATH.                                     *)
(*   table : what the point lookup on the main table does for the key of   *)
(*           the modelled calls: "hit" (a row), "miss" (no row), "broken"  *)
(*           (table or column absent: the statement fails).                *)
(*   view  : v_ndc_suggest exists.                                         *)
(*   base  : the view has lp, ndc10, brand, generic, ndc_digits.           *)
(*   sub, str : the view has the optional substance / strength column.     *)
(*   rows  : the rows of the view, in the order a SELECT returns them.     *)
(***************************************************************************)
\* Strings are over the digits 1 2, the letters F f o and the dash.
Digits == {"1", "2"}

ToLowerChar(ch) == IF ch = "F" THEN "f" ELSE ch

\* String.prototype.toLowerCase
ToLower(s) == [i \in 1..Len(s) |-> ToLowerChar(s[i])]

\* s.replace(/\D/g, '')
OnlyDigits(s) == SelectSeq(s, LAMBDA ch : ch \in Digits)

\* String.prototype.startsWith
StartsWith(s, p) == Len(p) <= Len(s) /\ SubSeq(s, 1, Len(p)) = p

\* String.prototype.includes
Includes(s, p) == \E i \in 0..(Len(s) - Len(p)) : SubSeq(s, i + 1, i + Len(p)) = p

\* A row of v_ndc_suggest with every column the view can have.
Row(lp, ndc10, brand, generic, substance, strength, ndc_digits) ==
    [lp |-> lp, ndc10 |-> ndc10, brand |-> brand, generic |-> generic,
     substance |-> substance, strength |-> strength, ndc_digits |-> ndc_digits]

RowA == Row(<<"1", "-", "2">>, <<"1", "-", "2", "-", "1">>, <<"F", "o">>, <<"2", "o">>,
            <<"o", "f">>, <<"2">>, <<"1", "1", "2", "1">>)
RowB == Row(<<"2", "-", "1">>, <<"2", "-", "1", "-", "2">>, Null, <<"f", "o", "o">>,
            Null, Null, Null)
RowC == Row(<<"2", "-", "2">>, <<"2", "-", "2", "-", "1">>, Null, <<"f">>,
            Null, Null, Null)

NoRows == << >>

MkFile(table, view, base, sub, str, rows) ==
    [table |-> table, view |-> view, base |-> base, sub |-> sub, str |-> str,
     rows |-> rows]

\* backupDb = null (no handle).
NoDb == MkFile("none", FALSE, FALSE, FALSE, FALSE, NoRows)

\* Files that differ in what the point lookup finds.
LookupFiles == {MkFile(t, TRUE, TRUE, TRUE, TRUE, <<RowA>>) : t \in {"hit", "miss", "broken"}}

\* Files that differ in the suggestion view.
ViewFiles ==
    {MkFile("miss", FALSE, FALSE, FALSE, FALSE, NoRows)} \cup
    {MkFile("miss", TRUE, FALSE, s, s, <<RowA>>) : s \in BOOLEAN} \cup
    {MkFile("miss", TRUE, TRUE, s, t, r) :
        s \in BOOLEAN, t \in BOOLEAN, r \in {<<RowA, RowB, RowC>>}}

Files == LookupFiles \cup ViewFiles


(***************************************************************************)
(* State.                                                                  *)
(***************************************************************************)
VARIABLES
    variant,        \* which version of the sqlite-backup module is loaded
    env,            \* process.env: path (NDC_SQLITE_PATH set; part_002: and the file
                    \* exists), substance / strength (the NDC_SUGGEST_INCLUDE_* flags),
                    \* limit (NDC_SUGGEST_LIMIT)
    dbFile,         \* the file currently at NDC_SQLITE_PATH
    swaps,          \* how often the file was replaced so far
    backupDb,       \* module variable backupDb (part_002: db); NoDb is null
    stmtByLP,       \* part_002: the handle stmtByLP was prepared on; NoDb is null
    suggestIndex,   \* module variable suggestIndex
    suggestSize,    \* globalThis.__NDC_SUGGEST_SIZE__ (-1 while undefined)
    listening,      \* app.listen was called: requests are served
    op,             \* startup and reload operations (init + build)
    call,           \* getNdcWithAssist calls
    query,          \* the last querySuggestRAM call: its arguments and result
    middleware,     \* which version of middleware/requirePermission.js is loaded
    primaryDb,      \* the server's module variable db (the primary database)
    routes,         \* the middleware the comment routes were registered with
    ndc_data,       \* primary table ndc_data: the normalizedNDC keys it holds
    merged_ndc_data,\* backup table: the labeler-product keys it holds
    comments,       \* table comments: the ndc-scoped rows (key and author)
    users,          \* table users: the emails with isApprovedCommenter = 1
    req             \* the HTTP request being served

\* The state of the HTTP server around the sqlite-backup module.
httpVars == <<middleware, primaryDb, routes, ndc_data, merged_ndc_data, comments, users, req>>

\* The state of the sqlite-backup module and of its callers.
backupVars == <<variant, env, dbFile, swaps, backupDb, stmtByLP, suggestIndex,
                suggestSize, listening, op, call, query>>

vars == <<variant, env, dbFile, swaps, backupDb, stmtByLP, suggestIndex,
          suggestSize, listening, op, call, query,
          middleware, primaryDb, routes, ndc_data, merged_ndc_data, comments, users, req>>

(***************************************************************************)
(* getNdcWithAssist                                                        *)
(***************************************************************************)
\* What a call hands back: a record, null, or an exception.
NoRet == [kind |-> "pending", row |-> "-", _source |-> "-"]
NullRet == [kind |-> "null", row |-> "-", _source |-> "-"]
Threw == [kind |-> "threw", row |-> "-", _source |-> "-"]
Drug(row, source) == [kind |-> "record", row |-> row, _source |-> source]

\* The row object primaryFn resolves with: a row of ndc_data, which has no
\* _source property.
PrimaryRecord(o) == Drug(o, "undefined")

\* mapBackupRow without its `_source: 'sqlite-backup'` line.
mapBackupRowUntagged(row) ==
    IF row = "null" THEN NullRet ELSE Drug(row, "undefined")

mapBackupRow(row) ==
    IF row = "null" THEN NullRet ELSE Drug(row, "sqlite-backup")

IdleCall ==
    [pc |-> "idle", done |-> FALSE, timer |-> "unset",
     primary |-> [i \in Invocations |-> "unstarted"],
     backup |-> "uncalled", handle |-> NoDb, first |-> "none",
     via |-> "none", ret |-> NoRet]

\* getFromBackupByLabelerProduct without `if (!backupDb) return null`: the
\* statement is run on null, which only the try/catch of part_000 and
\* part_002 absorbs.
getFromBackupUnguarded(v, h) ==
    IF h = NoDb THEN IF v = "sqlite_backup_js" THEN "rejected" ELSE "null"
    ELSE CASE h.table = "hit" -> "row"
           [] h.table = "miss" -> "null"
           [] OTHER -> IF v = "sqlite_backup_js" THEN "rejected" ELSE "null"

\* The answer of getFromBackupByLabelerProduct on handle h: "row", "null", or
\* "rejected" when the promise it returns rejects.
getFromBackupByLabelerProduct(v, h) ==
    IF h = NoDb THEN "null"
    ELSE CASE h.table = "hit" -> "row"
           [] h.table = "miss" -> "null"
           [] OTHER -> IF v = "sqlite_backup_js" THEN "rejected" ELSE "null"

\* `return x` of getNdcWithAssist.
Return(s, how, r) == [s EXCEPT !.pc = "returned", !.via = how, !.ret = r]

\* The late path without `.catch(() => null)` on the primary promise.
ReturnLateRethrows(s, o) ==
    IF o \in PrimaryRows THEN Return(s, "late", PrimaryRecord(o))
    ELSE IF o = "fail" THEN Return(s, "threw", Threw)
    ELSE Return(s, "notfound", NullRet)

\* `const late = await primary; return late || null;` once primary has settled
\* with o (a rejection was turned into null by .catch).
ReturnLate(s, o) ==
    IF o \in PrimaryRows THEN Return(s, "late", PrimaryRecord(o))
    ELSE Return(s, "notfound", NullRet)

\* The backup row is only returned once the primary has settled too.
AfterBackupAwaitsPrimary(s, v, b) ==
    LET s1 == [s EXCEPT !.backup = b] IN
    CASE b = "rejected" -> Return(s1, "threw", Threw)
      [] b = "row" /\ s1.primary[1] # "pending" ->
            Return([s1 EXCEPT !.done = TRUE], "backup", mapBackupRow("B"))
      [] b = "row" -> [s1 EXCEPT !.pc = "late"]
      [] OTHER ->
            IF s1.primary[1] = "pending" THEN [s1 EXCEPT !.pc = "late"]
            ELSE ReturnLate(s1, s1.primary[1])

\* sqlite-backup.js, part_000: the code after `await getFromBackupByLabelerProduct`.
AfterBackup(s, v, b) ==
    LET s1 == [s EXCEPT !.backup = b] IN
    CASE b = "rejected" -> Return(s1, "threw", Threw)
      [] b = "row" -> Return([s1 EXCEPT !.done = TRUE], "backup", mapBackupRow("B"))
      [] OTHER ->
            IF s1.primary[1] = "pending" THEN [s1 EXCEPT !.pc = "late"]
            ELSE ReturnLate(s1, s1.primary[1])

\* sqlite-backup.js, part_000: the code after `await Promise.race([primary, timer])`,
\* fast being what the race settled with ("null" or a primary row).
AfterRace(s, v, fast) ==
    IF fast \in PrimaryRows
    THEN Return([s EXCEPT !.done = TRUE], "fast", PrimaryRecord(fast))
    ELSE IF backupDb = NoDb
         THEN AfterBackup(s, v, getFromBackupByLabelerProduct(v, NoDb))
         ELSE [s EXCEPT !.pc = "backup", !.backup = "pending", !.handle = backupDb]

\* part_002: the code after `await timed`, r being [ok, v].
AfterTimed(s, ok, rv) ==
    IF ok /\ rv \in PrimaryRows
    THEN Return(s, "fast", PrimaryRecord(rv))
    ELSE LET h == IF backupDb = NoDb \/ stmtByLP = NoDb THEN NoDb ELSE stmtByLP
             b == getFromBackupByLabelerProduct("part_002", h)
             s1 == [s EXCEPT !.backup = b, !.handle = h]
         IN  IF b = "row" THEN Return(s1, "backup", mapBackupRow("B"))
             ELSE [s1 EXCEPT !.pc = "late", !.primary[2] = "pending"]

\* The race never sees the primary's record.
RaceValueDropsRecord(o) == "null"

\* The value a settled primary promise carries in the race: .catch(() => null)
\* turns a rejection into null, and an empty result is falsy.
RaceValue(o) == IF o \in PrimaryRows THEN o ELSE "null"

\* The handler calls getNdcWithAssist: the timer is armed, primaryFn is invoked
\* and the call suspends on the race.
Start(c) ==
    /\ listening
    /\ call[c].pc = "idle"
    /\ call' = [call EXCEPT ![c] = [@ EXCEPT !.pc = "race", !.timer = "pending",
                                              !.primary[1] = "pending"]]
    /\ UNCHANGED <<httpVars, variant, env, dbFile, swaps, backupDb, stmtByLP, suggestIndex,
                   suggestSize, listening, op, query>>

\* Invocation i of primaryFn settles with o.  `first` remembers which of the
\* two racing events of a call happened first: the settling of the primary
\* lookup it started, or the firing of its timer.
Settled(s, i, o) ==
    [s EXCEPT !.primary[i] = o,
              !.first = IF i = 1 /\ s.first = "none" THEN "primary" ELSE @]

Fired(s) ==
    [s EXCEPT !.timer = "fired", !.first = IF s.first = "none" THEN "timer" ELSE @]

\* A primary that settles empty during the race leaves the call waiting for
\* its timer.
PrimarySettleAsyncWaitsForTimer(s, i, o) ==
    LET s1 == Settled(s, i, o) IN
    CASE s.pc = "race" /\ o \in PrimaryRows -> AfterRace(s1, variant, RaceValue(o))
      [] s.pc = "late" -> ReturnLate(s1, o)
      [] OTHER -> s1

PrimarySettleAsync(s, i, o) ==
    LET s1 == Settled(s, i, o) IN
    CASE s.pc = "race" -> AfterRace(s1, variant, RaceValue(o))
      [] s.pc = "late" -> ReturnLate(s1, o)
      [] OTHER -> s1

PrimarySettleSync(s, i, o) ==
    LET s1 == Settled(s, i, o) IN
    CASE i = 1 /\ s.pc = "race" /\ ~s.done -> AfterTimed(s1, o # "fail", o)
      [] i = 2 /\ s.pc = "late" ->
            IF o \in PrimaryRows THEN Return(s1, "late", PrimaryRecord(o))
            ELSE Return(s1, "notfound", NullRet)
      [] OTHER -> s1

PrimarySettle(c, i, o) ==
    /\ call[c].primary[i] = "pending"
    /\ call' = [call EXCEPT ![c] =
                  IF variant \in AsyncVariants THEN PrimarySettleAsync(@, i, o)
                  ELSE PrimarySettleSync(@, i, o)]
    /\ UNCHANGED <<httpVars, variant, env, dbFile, swaps, backupDb, stmtByLP, suggestIndex,
                   suggestSize, listening, op, query>>

\* The setTimeout callback runs.
TimerFireAsync(s) ==
    LET s1 == Fired(s) IN
    IF s.pc = "race" /\ ~s.done
    THEN AfterRace(s1, variant, "null")
    ELSE s1

TimerFireSync(s) ==
    LET s1 == [Fired(s) EXCEPT !.done = TRUE] IN
    IF s.pc = "race"
    THEN AfterTimed(s1, FALSE, "null")
    ELSE s1

TimerFire(c) ==
    /\ call[c].timer = "pending"
    /\ call' = [call EXCEPT ![c] =
                  IF variant \in AsyncVariants THEN TimerFireAsync(@)
                  ELSE TimerFireSync(@)]
    /\ UNCHANGED <<httpVars, variant, env, dbFile, swaps, backupDb, stmtByLP, suggestIndex,
                   suggestSize, listening, op, query>>

\* sqlite-backup.js, part_000: backupDb.get of the point lookup settles.
BackupSettle(c) ==
    /\ call[c].pc = "backup"
    /\ call' = [call EXCEPT ![c] =
                  AfterBackup(@, variant, getFromBackupByLabelerProduct(variant, @.handle))]
    /\ UNCHANGED <<httpVars, variant, env, dbFile, swaps, backupDb, stmtByLP, suggestIndex,
                   suggestSize, listening, op, query>>


(***************************************************************************)
(* buildSuggestIndex and querySuggestRAM                                   *)
(***************************************************************************)
BaseCols == {"lp", "ndc10", "brand", "generic", "ndc_digits"}

\* Does `SELECT cols FROM v_ndc_suggest LIMIT ?` succeed on handle h.
SelectOk(h, cols) ==
    /\ h.view
    /\ h.base
    /\ ("substance" \in cols => h.sub)
    /\ ("strength" \in cols => h.str)

\* No LIMIT and no slice: every row is kept.
TakeAll(seq, n) == seq

Take(seq, n) == SubSeq(seq, 1, IF n < Len(seq) THEN n ELSE Len(seq))

\* The rows such a SELECT returns: a column that was not selected is not a
\* property of the row object (Undef).
SelectRows(h, cols, limit) ==
    LET all == [i \in 1..Len(h.rows) |->
                   [f \in DOMAIN h.rows[i] |->
                       IF f \in cols THEN h.rows[i][f] ELSE Undef]]
    IN  Take(all, limit)

\* The column sets tried in turn.
Attempts(v) ==
    CASE v = "sqlite_backup_js" ->
            << BaseCols \cup {"substance", "strength"},
               BaseCols \cup {"substance"},
               BaseCols >>
      [] v = "part_000" ->
            LET withStrength == IF env.strength THEN {"strength"} ELSE {}
                withSub == IF env.substance THEN {"substance"} ELSE {}
            IN  << BaseCols \cup withStrength \cup withSub,
                   BaseCols \cup withStrength,
                   BaseCols \cup withSub,
                   BaseCols >>
      [] OTHER -> << BaseCols \cup {"substance"} >>

\* One index entry, as each version builds it from a row r loaded with cols.
Entry(v, r, cols) ==
    LET lp == StrOf(r.lp)
        brand == OrElse(r.brand, Null)
        generic == OrElse(r.generic, Null)
        includeSubstance == "substance" \in cols /\ env.substance
        includeStrength == "strength" \in cols /\ env.strength
    IN
    CASE v = "sqlite_backup_js" ->
            [lp |-> lp, ndc10 |-> OrElse(r.ndc10, Null), brand |-> brand,
             generic |-> generic,
             substance |-> IF includeSubstance THEN OrElse(r.substance, Null) ELSE Null,
             strength |-> IF includeStrength THEN OrElse(r.strength, Null) ELSE Null,
             _lp |-> ToLower(lp),
             _digits |-> ToLower(StrOf(r.ndc_digits)),
             _brand |-> ToLower(StrOf(brand)),
             _generic |-> ToLower(StrOf(generic)),
             _sub |-> IF includeSubstance THEN ToLower(StrOf(r.substance)) ELSE << >>]
      [] v = "part_000" ->
            [lp |-> lp, ndc10 |-> OrElse(r.ndc10, Null), brand |-> brand,
             generic |-> generic,
             substance |-> IF r.substance # Undef THEN OrElse(r.substance, Null) ELSE Undef,
             strength |-> IF r.strength # Undef THEN OrElse(r.strength, Null) ELSE Undef,
             _lp |-> ToLower(lp),
             _digits |-> ToLower(StrOf(OrElse(r.ndc_digits, OnlyDigits(StrOf(r.ndc10))))),
             _brand |-> ToLower(StrOf(brand)),
             _generic |-> ToLower(StrOf(generic)),
             _sub |-> IF r.substance # Undef THEN ToLower(StrOf(r.substance)) ELSE Undef]
      [] OTHER ->
            [lp |-> lp, ndc10 |-> OrElse(r.ndc10, Null), brand |-> brand,
             generic |-> generic,
             substance |-> OrElse(r.substance, Null),
             strength |-> Undef,
             _lp |-> ToLower(lp),
             _digits |-> OrElse(OnlyDigits(StrOf(r.ndc10)), StrOf(r.ndc_digits)),
             _brand |-> ToLower(StrOf(brand)),
             _generic |-> ToLower(StrOf(generic)),
             _sub |-> ToLower(StrOf(r.substance))]

\* rows.map(...) of the build, then (part_000) .slice(0, limit).
LoadIndex(v, h, cols, limit) ==
    LET rows == SelectRows(h, cols, limit)
    IN  Take([i \in 1..Len(rows) |-> Entry(v, rows[i], cols)], limit)

\* The lean payload returned for one entry.
Lean(v, r) ==
    [lp |-> r.lp, ndc10 |-> r.ndc10, brand |-> r.brand, generic |-> r.generic,
     substance |-> r.substance,
     strength |-> IF v = "part_002" THEN Undef ELSE r.strength]

\* The match test of pass 1 (labeler-product prefix), 2 (digit prefix) and
\* 3 (name contains) for entry r.
Matches(v, pass, r, s, digits) ==
    CASE pass = 1 -> StartsWith(r._lp, s)
      [] pass = 2 -> StartsWith(r._digits, digits)
      [] OTHER ->
            \/ Includes(r._brand, s)
            \/ Includes(r._generic, s)
            \/ IF v = "part_002" THEN Includes(r._sub, s)
               ELSE Truthy(r._sub) /\ Includes(r._sub, s)

\* A pass whose push and whose loop ignore the limit.
RECURSIVE PassNoLimit(_, _, _, _, _, _, _)
PassNoLimit(v, pass, index, s, digits, out, limit) ==
    IF index = << >> THEN out
    ELSE PassNoLimit(v, pass, Tail(index), s, digits,
                     IF Matches(v, pass, Head(index), s, digits)
                     THEN Append(out, Head(index)) ELSE out,
                     limit)

\* A pass that scans the index from its last entry to its first.
RECURSIVE PassBackwards(_, _, _, _, _, _, _)
PassBackwards(v, pass, index, s, digits, out, limit) ==
    IF index = << >> \/ Len(out) >= limit THEN out
    ELSE PassBackwards(v, pass, SubSeq(index, 1, Len(index) - 1), s, digits,
                       IF Matches(v, pass, index[Len(index)], s, digits)
                       THEN Append(out, index[Len(index)]) ELSE out,
                       limit)

\* One pass of querySuggestRAM: the entries of index that match are pushed
\* onto out until out holds limit entries.
RECURSIVE Pass(_, _, _, _, _, _, _)
Pass(v, pass, index, s, digits, out, limit) ==
    IF index = << >> \/ Len(out) >= limit THEN out
    ELSE Pass(v, pass, Tail(index), s, digits,
              IF Matches(v, pass, Head(index), s, digits)
              THEN Append(out, Head(index)) ELSE out,
              limit)

\* The name pass runs before the two prefix passes.
SelectedNamesFirst(v, index, q, limit) ==
    IF q = << >> THEN << >>
    ELSE
    LET s == ToLower(q)
        digits == OnlyDigits(q)
        out1 == Pass(v, 3, index, s, digits, << >>, limit)
        out2 == IF Len(out1) < limit THEN Pass(v, 1, index, s, digits, out1, limit)
                ELSE out1
    IN  IF Len(out2) < limit /\ digits # << >>
        THEN Pass(v, 2, index, s, digits, out2, limit)
        ELSE out2

\* The array `out` of querySuggestRAM after its three passes.
Selected(v, index, q, limit) ==
    IF q = << >> THEN << >>
    ELSE
    LET s == ToLower(q)
        digits == OnlyDigits(q)
        out1 == Pass(v, 1, index, s, digits, << >>, limit)
        out2 == IF Len(out1) < limit /\ digits # << >>
                THEN Pass(v, 2, index, s, digits, out1, limit) ELSE out1
    IN  IF Len(out2) < limit THEN Pass(v, 3, index, s, digits, out2, limit)
        ELSE out2

querySuggestRAM(v, index, q, limit) ==
    LET out == Selected(v, index, q, limit)
    IN  [i \in 1..Len(out) |-> Lean(v, out[i])]

\* Query texts and result limits the modelled requests use.
Queries == { << >>, <<"1">>, <<"2">>, <<"F", "o">>, <<"2", "-">>, <<"o">> }
MaxQueryLimit == 3

\* sel: the entries the call pushed onto `out`; busy: a startup or reload was
\* suspended on one of its awaits when the call ran.
NoQuery ==
    [q |-> << >>, limit |-> 0, out |-> << >>, sel |-> << >>, asked |-> FALSE,
     busy |-> FALSE]

\* Where an operation is suspended between its start and its completion.
InProgress == {"open", "sanity", "view", "select"}

\* A request handler calls querySuggestRAM(q, {limit}).
Query(q, limit) ==
    /\ listening
    /\ query' = [q |-> q, limit |-> limit, asked |-> TRUE,
                 out |-> querySuggestRAM(variant, suggestIndex, q, limit),
                 sel |-> Selected(variant, suggestIndex, q, limit),
                 busy |-> \E n \in DOMAIN op : op[n].pc \in InProgress]
    /\ UNCHANGED <<httpVars, variant, env, dbFile, swaps, backupDb, stmtByLP, suggestIndex,
                   suggestSize, listening, op, call>>


(***************************************************************************)
(* Startup and reload: initSqliteBackup() followed by buildSuggestIndex(). *)
(***************************************************************************)
Ops == {"boot", "reload"}

\* A second reload request, which can arrive while the first is suspended.
AllOps == Ops \cup {"reload2"}

\* pc: where the operation is suspended; h: the handle its pending statement
\* runs on, then the handle its build last read; attempt: the column set being
\* tried; flip: changes each time the operation completes.
IdleOp == [pc |-> "idle", h |-> NoDb, attempt |-> 0, flip |-> FALSE]

\* The part of the state an operation step writes.
World(o, db, stmt, index, size) ==
    [o |-> o, db |-> db, stmt |-> stmt, index |-> index, size |-> size]

Finished(o) == [o EXCEPT !.pc = "done", !.attempt = 0, !.flip = ~@]
Failed(o) == [o EXCEPT !.pc = "failed", !.attempt = 0, !.flip = ~@]

\* A build that empties the published index before it loads the new one.
BuildBeginClearsIndex(v, o, db, index, size) ==
    IF db = NoDb THEN World(Finished([o EXCEPT !.h = NoDb]), db, stmtByLP, index, size)
    ELSE IF v = "part_000"
         THEN World([o EXCEPT !.pc = "view", !.h = db], db, stmtByLP, << >>, 0)
         ELSE World([o EXCEPT !.pc = "select", !.h = db, !.attempt = 1],
                    db, stmtByLP, << >>, 0)

\* sqlite-backup.js, part_000: buildSuggestIndex up to its first await, db being
\* the value of backupDb when it is entered.
BuildBegin(v, o, db, index, size) ==
    IF db = NoDb THEN World(Finished([o EXCEPT !.h = NoDb]), db, stmtByLP, index, size)
    ELSE IF v = "part_000"
         THEN World([o EXCEPT !.pc = "view", !.h = db], db, stmtByLP, index, size)
         ELSE World([o EXCEPT !.pc = "select", !.h = db, !.attempt = 1],
                    db, stmtByLP, index, size)

\* part_000: the code after the sqlite_master check of buildSuggestIndex.
AfterViewCheck(v, o, index, size) ==
    IF ~o.h.view
    THEN World(Finished(o), backupDb, stmtByLP, << >>, 0)
    ELSE World([o EXCEPT !.pc = "select", !.h = backupDb, !.attempt = 1],
               backupDb, stmtByLP, index, size)

\* A build that adds the loaded rows to the index it finds.
AfterSelectAppends(v, o, index, size) ==
    LET cols == Attempts(v)[o.attempt] IN
    IF SelectOk(o.h, cols)
    THEN LET loaded == index \o LoadIndex(v, o.h, cols, env.limit)
         IN  World(Finished(o), backupDb, stmtByLP, loaded, Len(loaded))
    ELSE IF o.attempt < Len(Attempts(v))
         THEN World([o EXCEPT !.h = backupDb, !.attempt = o.attempt + 1],
                    backupDb, stmtByLP, index, size)
         ELSE IF v = "part_000"
              THEN World(Finished(o), backupDb, stmtByLP, << >>, 0)
              ELSE World(Failed(o), backupDb, stmtByLP, index, size)

\* sqlite-backup.js, part_000: one bulk select on o.h has settled.
AfterSelect(v, o, index, size) ==
    LET cols == Attempts(v)[o.attempt] IN
    IF SelectOk(o.h, cols)
    THEN LET loaded == LoadIndex(v, o.h, cols, env.limit)
         IN  World(Finished(o), backupDb, stmtByLP, loaded, Len(loaded))
    ELSE IF o.attempt < Len(Attempts(v))
         THEN World([o EXCEPT !.h = backupDb, !.attempt = o.attempt + 1],
                    backupDb, stmtByLP, index, size)
         ELSE IF v = "part_000"
              THEN World(Finished(o), backupDb, stmtByLP, << >>, 0)
              ELSE World(Failed(o), backupDb, stmtByLP, index, size)

\* part_002: initSqliteBackup and buildSuggestIndex run synchronously.
SyncInitAndBuild(o, index, size) ==
    LET cols == Attempts("part_002")[1]
        Build(o1, db, stmt) ==
            IF db = NoDb THEN World(Finished(o1), db, stmt, index, size)
            ELSE IF SelectOk(db, cols)
                 THEN World(Finished(o1), db, stmt,
                            LoadIndex("part_002", db, cols, env.limit), size)
                 ELSE World(Failed(o1), db, stmt, index, size)
    IN
    IF ~env.path THEN Build([o EXCEPT !.h = backupDb], backupDb, stmtByLP)
    ELSE IF dbFile.table = "broken"
         THEN World(Failed([o EXCEPT !.h = NoDb]), dbFile, stmtByLP, index, size)
         ELSE Build([o EXCEPT !.h = dbFile], dbFile, dbFile)

\* Apply what a step of operation n wrote; startup that completes calls
\* app.listen.
Apply(n, w) ==
    /\ op' = [op EXCEPT ![n] = w.o]
    /\ backupDb' = w.db
    /\ stmtByLP' = w.stmt
    /\ suggestIndex' = w.index
    /\ suggestSize' = w.size
    /\ listening' = (listening \/ (n = "boot" /\ w.o.pc = "done"))
    /\ UNCHANGED <<httpVars, variant, env, dbFile, swaps, call, query>>

\* Startup (once `db = await open(...)` of startServer has assigned the primary
\* handle), or the reload handler (after app.listen, any number of times, one
\* at a time).
OpStart(n) ==
    /\ IF n = "boot" THEN op[n].pc = "idle" /\ primaryDb # Undef
       ELSE listening /\ op[n].pc \in {"idle", "done", "failed"}
    /\ Apply(n,
         IF variant = "part_002"
         THEN SyncInitAndBuild(op[n], suggestIndex, suggestSize)
         ELSE IF ~env.path
              THEN BuildBegin(variant, op[n], backupDb, suggestIndex, suggestSize)
              ELSE World([op[n] EXCEPT !.pc = "open"], backupDb, stmtByLP,
                         suggestIndex, suggestSize))

\* `backupDb = await open(...)`: the handle reads the file that is at the path now.
OpOpen(n) ==
    /\ op[n].pc = "open"
    /\ Apply(n, World([op[n] EXCEPT !.pc = "sanity", !.h = dbFile], dbFile, stmtByLP,
                      suggestIndex, suggestSize))

\* The sqlite_master check of initSqliteBackup settles; buildSuggestIndex starts.
OpSanity(n) ==
    /\ op[n].pc = "sanity"
    /\ Apply(n, BuildBegin(variant, op[n], backupDb, suggestIndex, suggestSize))

OpView(n) ==
    /\ op[n].pc = "view"
    /\ Apply(n, AfterViewCheck(variant, op[n], suggestIndex, suggestSize))

OpSelect(n) ==
    /\ op[n].pc = "select"
    /\ Apply(n, AfterSelect(variant, op[n], suggestIndex, suggestSize))

\* How often the file at the path is replaced in one run.
MaxSwaps == 1

\* An administrator replaces the file at NDC_SQLITE_PATH by one of pool.
SwapFile(pool) ==
    /\ swaps < MaxSwaps
    /\ \E f \in pool \ {dbFile} : dbFile' = f
    /\ swaps' = swaps + 1
    /\ UNCHANGED <<httpVars, variant, env, backupDb, stmtByLP, suggestIndex, suggestSize,
                   listening, op, call, query>>


(***************************************************************************)
(* The HTTP server: candidate keys of a lookup.                            *)
(***************************************************************************)
\* The digits of a request's ndc parameter; it also holds dashes, blanks and
\* the letter x.
NdcDigits == {"0", "1"}

\* String.prototype.trim
RECURSIVE TrimStart(_)
TrimStart(s) == IF s # << >> /\ Head(s) = " " THEN TrimStart(Tail(s)) ELSE s

RECURSIVE TrimEnd(_)
TrimEnd(s) ==
    IF s # << >> /\ s[Len(s)] = " " THEN TrimEnd(SubSeq(s, 1, Len(s) - 1)) ELSE s

Trim(s) == TrimEnd(TrimStart(s))

\* raw.replace(/\D/g, '')
DigitsOf(s) == SelectSeq(s, LAMBDA ch : ch \in NdcDigits)

\* /^\d+$/.test(p)
AllDigits(p) == p # << >> /\ \A i \in 1..Len(p) : p[i] \in NdcDigits

\* raw.split('-'): the pieces between the dashes, empty ones included.
RECURSIVE SplitFrom(_, _)
SplitFrom(s, piece) ==
    IF s = << >> THEN <<piece>>
    ELSE IF Head(s) = "-" THEN <<piece>> \o SplitFrom(Tail(s), << >>)
    ELSE SplitFrom(Tail(s), Append(piece, Head(s)))

\* String.prototype.slice(from, to) for 0 <= from <= to.
Slice(s, from, to) == SubSeq(s, from + 1, IF to < Len(s) THEN to ELSE Len(s))

\* v.replace(/^0+/, '')
RECURSIVE DropZeros(_)
DropZeros(s) == IF s # << >> /\ Head(s) = "0" THEN DropZeros(Tail(s)) ELSE s

stripLeadingZeros(v) == OrElse(DropZeros(StrOf(v)), <<"0">>)

\* The element push(a, b) appends to out.
push(a, b) == stripLeadingZeros(a) \o <<"-">> \o stripLeadingZeros(b)

\* An array returned as it was filled.
KeepAll(out) == out

\* Array.from(new Set(out)): the first occurrence of every element, in order.
RECURSIVE Distinct(_)
Distinct(out) ==
    IF out = << >> THEN << >>
    ELSE LET front == Distinct(SubSeq(out, 1, Len(out) - 1))
             last == out[Len(out)]
         IN  IF \E i \in 1..Len(front) : front[i] = last THEN front
             ELSE Append(front, last)

deriveLabelerProductCandidates(input) ==
    IF ~Truthy(input) THEN << >>
    ELSE LET raw == Trim(input)
             digits == DigitsOf(raw)
             parts == SplitFrom(raw, << >>)
         IN  IF Len(parts) = 3 /\ \A i \in 1..3 : AllDigits(parts[i])
             THEN Distinct(<<push(parts[1], parts[2])>>)
             ELSE IF Len(digits) = 11
             THEN Distinct(<<push(Slice(digits, 0, 5), Slice(digits, 5, 9))>>)
             ELSE IF Len(digits) = 10
             THEN Distinct(<<push(Slice(digits, 0, 4), Slice(digits, 4, 8)),
                             push(Slice(digits, 0, 5), Slice(digits, 5, 8)),
                             push(Slice(digits, 0, 5), Slice(digits, 5, 9))>>)
             ELSE IF Len(digits) >= 9
             THEN Distinct(<<push(Slice(digits, 0, 5), Slice(digits, 5, 9))>>)
             ELSE Distinct(<< >>)

(***************************************************************************)
(* The HTTP server: requests, tokens and tables.                           *)
(*   GET /ndc-lookup        src/server.js (no middleware on the route)     *)
(*   POST /comments         src/unnamed/part_005                           *)
(*   DELETE /comments/:id   src/unnamed/part_005                           *)
(* `middleware` says which version of requirePermission is loaded:         *)
(*   "requirePermission_js"  src/middleware/requirePermission.js           *)
(*   "part_003"              src/unnamed/part_003                          *)
(***************************************************************************)
Middlewares == {"requirePermission_js", "part_003"}

\* String.prototype.endsWith
EndsWith(s, p) == Len(p) <= Len(s) /\ SubSeq(s, Len(s) - Len(p) + 1, Len(s)) = p

\* An email address is its local part followed by one element for "@domain".
CompanyDomain == <<"@exactcarepharmacy.com">>
Emails == {<<"f", "@exactcarepharmacy.com">>, <<"F", "@exactcarepharmacy.com">>,
           <<"f", "@example.com">>, << >>}

Permissions == {"comment:write", "comment:delete"}

\* A JS value that is an array of permissions, or is not an array (undefined).
Array(items) == [isArray |-> TRUE, items |-> items]
NoArray == [isArray |-> FALSE, items |-> {}]

\* The Authorization header of a request and what jwtVerify makes of its token:
\* scheme "none" is a request without the header; valid = FALSE is a token
\* jwtVerify rejects; email and permissions are the claims of the payload.
Header(scheme, valid, email, permissions) ==
    [scheme |-> scheme, valid |-> valid, email |-> email, permissions |-> permissions]

NoHeader == Header("none", FALSE, << >>, NoArray)

\* req.user: undefined until requireAuth assigns it.
NoUser == [defined |-> FALSE, email |-> << >>, permissions |-> NoArray,
           claims |-> [permissions |-> NoArray]]

\* The object requireAuth assigns to req.user from a verified payload:
\* { sub, email, name, claims: payload }.
AuthUser(hdr) ==
    [defined |-> TRUE, email |-> ToLower(StrOf(hdr.email)), permissions |-> NoArray,
     claims |-> [permissions |-> hdr.permissions]]

\* The handle `open` resolves with for the primary database.
PrimaryHandle == <<"sqlite", "handle">>

\* A parameter's default value applies when the argument is undefined.
DefaultArg(v, d) == IF v = Undef THEN d ELSE v

\* requirePermission(required, allowApprovedFallback = false, db = null): the
\* closure keeps its three arguments.
requirePermission(required, allowApprovedFallback, handle) ==
    [registered |-> TRUE, required |-> required,
     allowApprovedFallback |-> allowApprovedFallback,
     db |-> DefaultArg(handle, Null)]

Unregistered ==
    [registered |-> FALSE, required |-> "-", allowApprovedFallback |-> FALSE,
     db |-> Null]

NoRoutes == [r \in {"post", "delete"} |-> Unregistered]

\* app.post('/comments', ..., requirePermission('comment:write', true, db), ...)
\* app.delete('/comments/:id', ..., requirePermission('comment:delete'), ...)
\* evaluated with the value the module variable db has at that moment; the
\* delete route leaves both optional arguments to their defaults.
registerRoutes(handle) ==
    [post |-> requirePermission("comment:write", TRUE, handle),
     delete |-> requirePermission("comment:delete", FALSE, Undef)]

\* A row of the comments table with scope 'ndc'.
Comment(ndc, author) == [normalizedNDC |-> ndc, author |-> author]

\* What a response carries: status 0 while nothing was sent.
NoBody == [drug |-> << >>, _source |-> "-", comments |-> {}]

\* pc: the promise the request is suspended on ("idle" before it arrives,
\*     "done" once the response was sent);
\* raw: req.query.ndc of a lookup, body.normalizedNDC of a post, the key of
\*     the row a delete names;  scope: body.scope of a post;
\* candidates, i, h: the candidate keys, the index of the pending query and
\*     the backup handle it runs on;
\* log (ghost): the queries issued so far, <<source, key>>;
\* nexts, denied (ghost): how often requirePermission called next(), and
\*     whether it answered 403.
NewReq(route, raw, scope, hdr) ==
    [pc |-> "idle", route |-> route, raw |-> raw, scope |-> scope, hdr |-> hdr,
     user |-> NoUser, candidates |-> << >>, i |-> 0, h |-> NoDb, drug |-> << >>,
     source |-> "-", status |-> 0, error |-> "-", body |-> NoBody, log |-> << >>,
     nexts |-> 0, denied |-> FALSE]

NoReq == NewReq("-", << >>, "-", NoHeader)

Respond(r, status, error) == [r EXCEPT !.pc = "done", !.status = status, !.error = error]

getEmailFromReq(r) == ToLower(IF Truthy(r.user.email) THEN r.user.email ELSE << >>)

\* The rows db.all returns for the candidates.
CommentsFor(candidates) ==
    {c \in comments : \E i \in 1..Len(candidates) : c.normalizedNDC = candidates[i]}

\* The backup lookup of one key on handle h (sqlite-backup.js): null without a
\* handle, a rejection when the table is absent.
BackupGet(h, lp) ==
    IF h = NoDb THEN "null"
    ELSE IF h.table = "broken" THEN "rejected"
    ELSE IF lp \in merged_ndc_data THEN "row" ELSE "null"

(***************************************************************************)
(* GET /ndc-lookup                                                         *)
(***************************************************************************)
\* The handler from `if (!drug) return 404` on: the payload is built and, for
\* a company email, the comments query is issued.
Found(r, key, source) ==
    LET r1 == [r EXCEPT !.drug = key, !.source = source,
                        !.body = [drug |-> key, _source |-> source, comments |-> {}]]
    IN  IF EndsWith(getEmailFromReq(r1), CompanyDomain)
        THEN [r1 EXCEPT !.pc = "comments"]
        ELSE Respond(r1, 200, "-")

\* db.get on ndc_data is called for candidate i.
AskPrimary(r, i) ==
    [r EXCEPT !.pc = "primary", !.i = i,
              !.log = Append(@, <<"primary", r.candidates[i]>>)]

\* getFromBackupByLabelerProduct is called for candidate i.
AskBackup(r, i, h) ==
    [r EXCEPT !.pc = "backup", !.i = i, !.h = h,
              !.log = Append(@, <<"backup", r.candidates[i]>>)]

\* The handler asks the primary for the raw input when there is no candidate.
LookupBeginAsksRaw(r) ==
    LET candidates == deriveLabelerProductCandidates(OrElse(r.raw, << >>))
        r1 == [r EXCEPT !.candidates = candidates]
    IN  IF Len(candidates) = 0
        THEN Respond([r1 EXCEPT !.log = Append(@, <<"primary", r.raw>>)], 404,
                     "NDC not found")
        ELSE [r1 EXCEPT !.pc = "primary", !.i = 1,
                        !.log = Append(@, <<"primary", candidates[1]>>)]

\* The handler up to its first await.
LookupBegin(r) ==
    LET candidates == deriveLabelerProductCandidates(OrElse(r.raw, << >>))
        r1 == [r EXCEPT !.candidates = candidates]
    IN  IF Len(candidates) = 0 THEN Respond(r1, 400, "Invalid NDC format")
        ELSE AskPrimary(r1, 1)

\* The backup is asked before the primary has answered for every candidate.
AfterPrimaryBackupFirst(r, h) ==
    IF r.candidates[r.i] \in merged_ndc_data
    THEN Respond([r EXCEPT !.drug = r.candidates[r.i], !.source = "sqlite-backup",
                           !.body = [drug |-> r.candidates[r.i],
                                     _source |-> "sqlite-backup", comments |-> {}],
                           !.log = Append(@, <<"backup", r.candidates[r.i]>>)],
                 200, "-")
    ELSE IF r.candidates[r.i] \in ndc_data
    THEN Respond([r EXCEPT !.drug = r.candidates[r.i], !.source = "primary-db",
                           !.body = [drug |-> r.candidates[r.i],
                                     _source |-> "primary-db", comments |-> {}]],
                 200, "-")
    ELSE IF r.i < Len(r.candidates)
    THEN [r EXCEPT !.pc = "primary", !.i = r.i + 1,
                   !.log = Append(@, <<"primary", r.candidates[r.i + 1]>>)]
    ELSE Respond(r, 404, "NDC not found")

\* db.get on ndc_data settles for candidate i.
AfterPrimary(r, h) ==
    IF r.candidates[r.i] \in ndc_data THEN Found(r, r.candidates[r.i], "primary-db")
    ELSE IF r.i < Len(r.candidates) THEN AskPrimary(r, r.i + 1)
    ELSE AskBackup(r, 1, h)

\* getFromBackupByLabelerProduct settles for candidate i.
AfterBackupGet(r, h) ==
    LET b == BackupGet(r.h, r.candidates[r.i])
    IN  IF b = "rejected" THEN Respond(r, 500, "Internal error")
        ELSE IF b = "row" THEN Found(r, r.candidates[r.i], "sqlite-backup")
        ELSE IF r.i < Len(r.candidates) THEN AskBackup(r, r.i + 1, h)
        ELSE Respond(r, 404, "NDC not found")

\* db.all on comments settles.
AfterComments(r) ==
    Respond([r EXCEPT !.body.comments = CommentsFor(r.candidates)], 200, "-")

(***************************************************************************)
(* requireAuth, requireExactCareDomain, requirePermission and the comment  *)
(* handlers.                                                               *)
(***************************************************************************)
\* requireAuth up to `await verifyAuth0(token)`.
requireAuthBegin(r) ==
    IF r.hdr.scheme # "Bearer" THEN Respond(r, 401, "Missing token")
    ELSE [r EXCEPT !.pc = "verify"]

\* The permissions requirePermission reads from the request.
tokenPerms(mw, user) ==
    IF user.permissions.isArray THEN user.permissions.items
    ELSE IF mw = "part_003" /\ user.claims.permissions.isArray
    THEN user.claims.permissions.items
    ELSE {}

\* The route handler up to its first await: POST validates body.scope (the
\* comment text is present).
HandlerBegin(r) ==
    IF r.route = "post" /\ r.scope \notin {"ndc", "gpi"}
    THEN Respond(r, 400, "Invalid scope")
    ELSE [r EXCEPT !.pc = "run"]

\* requirePermission calls next().
PermissionNext(r) == HandlerBegin([r EXCEPT !.nexts = @ + 1])

\* requirePermission answers 403.
Forbidden(r) == Respond([r EXCEPT !.denied = TRUE], 403, "insufficient_permissions")

\* The middleware returned by requirePermission, up to its first await; g is
\* the closure the route was registered with.
PermissionBegin(mw, r, g) ==
    IF g.required \in tokenPerms(mw, r.user) THEN PermissionNext(r)
    ELSE IF g.allowApprovedFallback /\ Truthy(g.db) /\ g.required = "comment:write"
              /\ Truthy(ToLower(StrOf(r.user.email)))
    THEN [r EXCEPT !.pc = "fallback"]
    ELSE Forbidden(r)

\* The users row of the fallback query arrives.
AfterFallback(r) ==
    IF ToLower(StrOf(r.user.email)) \in users THEN PermissionNext(r) ELSE Forbidden(r)

\* verifyAuth0 settles: requireAuth assigns req.user and calls next(), then
\* requireExactCareDomain and requirePermission run.
AfterVerify(mw, r, g) ==
    IF ~r.hdr.valid THEN Respond(r, 401, "Invalid token")
    ELSE LET r1 == [r EXCEPT !.user = AuthUser(r.hdr)]
         IN  IF ~EndsWith(getEmailFromReq(r1), CompanyDomain)
             THEN Respond(r1, 403, "Unauthorized domain")
             ELSE PermissionBegin(mw, r1, g)

\* db.run of the handler settles.
AfterRun(r) == Respond(r, IF r.route = "post" THEN 201 ELSE 200, "-")

\* The comments table after the statement of the handler ran.
RunOn(r, table) ==
    IF r.route = "post"
    THEN IF r.scope = "ndc" THEN table \cup {Comment(r.raw, getEmailFromReq(r))}
         ELSE table
    ELSE {c \in table : c.normalizedNDC # r.raw}

(***************************************************************************)
(* Actions of the server.                                                  *)
(***************************************************************************)
\* The rest of the module is evaluated after the call of startServer(), which
\* is suspended in `await open(...)`: the comment routes are registered.
RegisterRoutes ==
    /\ ~routes["post"].registered
    /\ routes' = registerRoutes(primaryDb)
    /\ UNCHANGED <<backupVars, middleware, primaryDb, ndc_data, merged_ndc_data, comments,
                   users, req>>

\* `db = await open(...)` of startServer: the continuation runs once the
\* evaluation of the module has finished.
OpenPrimary ==
    /\ routes["post"].registered
    /\ primaryDb = Undef
    /\ primaryDb' = PrimaryHandle
    /\ UNCHANGED <<backupVars, middleware, routes, ndc_data, merged_ndc_data,
                   comments, users, req>>

\* The request arrives: the first middleware or the handler of its route runs
\* to its first await.
Receive ==
    /\ listening
    /\ req.pc = "idle"
    /\ req.route \in {"lookup", "post", "delete"}
    /\ req' = IF req.route = "lookup" THEN LookupBegin(req) ELSE requireAuthBegin(req)
    /\ UNCHANGED <<backupVars, middleware, primaryDb, routes, ndc_data, merged_ndc_data,
                   comments, users>>

\* The promise the request is suspended on settles.
Resume ==
    /\ req.pc \in {"primary", "backup", "comments", "verify", "fallback", "run"}
    /\ req' = CASE req.pc = "primary" -> AfterPrimary(req, backupDb)
                [] req.pc = "backup" -> AfterBackupGet(req, backupDb)
                [] req.pc = "comments" -> AfterComments(req)
                [] req.pc = "verify" -> AfterVerify(middleware, req, routes[req.route])
                [] req.pc = "fallback" -> AfterFallback(req)
                [] req.pc = "run" -> AfterRun(req)
    /\ comments' = IF req.pc = "run" THEN RunOn(req, comments) ELSE comments
    /\ UNCHANGED <<backupVars, middleware, primaryDb, routes, ndc_data, merged_ndc_data,
                   users>>

(***************************************************************************)
(* Specifications.                                                         *)
(***************************************************************************)
MaxLimit == 3

Env(path, substance, strength, limit) ==
    [path |-> path, substance |-> substance, strength |-> strength, limit |-> limit]

\* Configurations: the default, no backup path, either optional column
\* switched off, and a row limit below the size of the view.
Envs ==
    {Env(TRUE, TRUE, TRUE, MaxLimit), Env(FALSE, TRUE, TRUE, MaxLimit),
     Env(TRUE, FALSE, TRUE, MaxLimit), Env(TRUE, TRUE, FALSE, MaxLimit),
     Env(TRUE, TRUE, TRUE, 1)}

\* The server once startServer has opened the primary database, with no
\* request to serve.
ServerIdle ==
    /\ middleware = "requirePermission_js"
    /\ primaryDb = PrimaryHandle
    /\ routes = registerRoutes(Undef)
    /\ ndc_data = {}
    /\ merged_ndc_data = {}
    /\ comments = {}
    /\ users = {}
    /\ req = NoReq

InitWith(files, envs) ==
    /\ ServerIdle
    /\ variant \in Variants
    /\ env \in envs
    /\ dbFile \in files
    /\ swaps = 0
    /\ backupDb = NoDb
    /\ stmtByLP = NoDb
    /\ suggestIndex = << >>
    /\ suggestSize = -1
    /\ listening = FALSE
    /\ op = [n \in AllOps |-> IdleOp]
    /\ call = [c \in Calls |-> IdleCall]
    /\ query = NoQuery

OpStep(n) == OpStart(n) \/ OpOpen(n) \/ OpSanity(n) \/ OpView(n) \/ OpSelect(n)

CallStep(c) ==
    \/ Start(c)
    \/ \E i \in Invocations, o \in PrimaryOutcomes : PrimarySettle(c, i, o)
    \/ TimerFire(c)
    \/ BackupSettle(c)

\* The default configuration, with and without a backup path.
DefaultEnvs == {e \in Envs : e.substance /\ e.strength /\ e.limit = MaxLimit}

\* Lookups, suggestion queries, startup and reloads over files that differ in
\* what the point lookup finds.
Init == InitWith(LookupFiles, DefaultEnvs)

Next ==
    \/ \E n \in Ops : OpStep(n)
    \/ CallStep("a")
    \/ \E q \in Queries, l \in 1..MaxQueryLimit : Query(q, l)

Spec == Init /\ [][Next]_vars

\* The event loop runs every timer callback and every continuation of a
\* settled backup statement; nothing makes the caller's primaryFn settle.
LiveSpec ==
    /\ Spec
    /\ WF_vars(TimerFire("a"))
    /\ WF_vars(BackupSettle("a"))

\* Two lookups in flight at once.
NextPair ==
    \/ \E n \in Ops : OpStep(n)
    \/ \E c \in Calls : CallStep(c)

SpecPair == Init /\ [][NextPair]_vars

\* Startup, reloads, file replacement and suggestion queries over files that
\* differ in the suggestion view.
InitIndex == InitWith(ViewFiles, Envs)

NextIndex ==
    \/ \E n \in Ops : OpStep(n)
    \/ SwapFile(ViewFiles)
    \/ \E q \in {<<"2">>, <<"o">>} : Query(q, MaxQueryLimit)

SpecIndex == InitIndex /\ [][NextIndex]_vars

\* Startup, reloads and file replacement alone.
NextBuild ==
    \/ \E n \in Ops : OpStep(n)
    \/ SwapFile(ViewFiles)

SpecBuild == InitIndex /\ [][NextBuild]_vars

\* Startup, reloads and suggestion queries over a file that stays as it is.
NextQuery ==
    \/ \E n \in Ops : OpStep(n)
    \/ \E q \in Queries, l \in 1..MaxQueryLimit : Query(q, l)

SpecQuery == InitIndex /\ [][NextQuery]_vars

\* Startup and two reload requests that can overlap, while the file is
\* replaced, with a backup path configured.
OverlapFiles ==
    {MkFile("miss", FALSE, FALSE, FALSE, FALSE, NoRows),
     MkFile("miss", TRUE, TRUE, TRUE, TRUE, <<RowB>>),
     MkFile("miss", TRUE, TRUE, TRUE, TRUE, <<RowA, RowB, RowC>>)}

InitOverlap == InitWith(OverlapFiles, {e \in DefaultEnvs : e.path})

NextOverlap ==
    \/ \E n \in AllOps : OpStep(n)
    \/ SwapFile(OverlapFiles)

SpecOverlap == InitOverlap /\ [][NextOverlap]_vars

\* Suggestion queries while the file is replaced and reloaded, in the default
\* configuration.
InitReload == InitWith(ViewFiles, DefaultEnvs)

SpecReload == InitReload /\ [][NextIndex]_vars

\* The sqlite-backup module before startServer has touched it.
ModuleFresh(variants, envs, files) ==
    /\ variant \in variants
    /\ env \in envs
    /\ dbFile \in files
    /\ swaps = 0
    /\ backupDb = NoDb
    /\ stmtByLP = NoDb
    /\ suggestIndex = << >>
    /\ suggestSize = -1
    /\ listening = FALSE
    /\ op = [n \in AllOps |-> IdleOp]
    /\ call = [c \in Calls |-> IdleCall]
    /\ query = NoQuery

\* startServer from initSqliteBackup on, with src/sqlite-backup.js, whose
\* build has no separate check for the view.
BootStep == OpStart("boot") \/ OpOpen("boot") \/ OpSanity("boot") \/ OpSelect("boot")

\* The longest run of digits a request carries.
MaxDigits == 12

\* The strings of n digits.
DigitStrings(n) == [1..n -> NdcDigits]

Contiguous == UNION {DigitStrings(n) : n \in 0..MaxDigits}

\* Pieces of dashed input: empty, one digit, 3, 4 and 5 digits, a letter.
Groups ==
    {<< >>, <<"0">>, <<"1">>, <<"0", "1", "0">>, <<"0", "0", "1", "0">>,
     <<"0", "0", "0", "1", "0">>, <<"1", "0", "0", "0", "0">>, <<"x">>}

Dashed2 == {a \o <<"-">> \o b : a \in Groups, b \in Groups}
Dashed3 == {a \o <<"-">> \o b \o <<"-">> \o c : a \in Groups, b \in Groups, c \in Groups}

\* The values of the ndc parameter: digits only, two, three and four dashed
\* pieces, input with blanks around it and input with a letter in it.
RawInputs ==
    Contiguous \cup Dashed2 \cup Dashed3 \cup
    {a \o <<"-">> \o b : a \in Dashed2, b \in Dashed2} \cup
    {<<" ">> \o s \o <<" ">> : s \in Dashed3} \cup
    {SubSeq(s, 1, 1) \o <<"x">> \o SubSeq(s, 2, Len(s)) :
        s \in UNION {DigitStrings(n) : n \in 8..11}}

\* Short input, most of which has no candidate key, and input of 9, 10 and 11
\* digits with one, two and three distinct candidates.
ShortLen == 8

LookupInputs ==
    {r \in RawInputs : Len(r) <= ShortLen} \cup
    {<<"0", "0", "0", "1", "0", "0", "0", "1", "1", "0">>,
     <<"0", "0", "0", "0", "0", "0", "0", "0", "1", "0">>,
     <<"0", "0", "0", "0", "0", "0", "0", "0", "0", "0">>,
     <<"0", "0", "0", "1", "0", "0", "0", "1", "1", "0", "0">>,
     <<"0", "0", "0", "1", "0", "-", "0", "0", "1", "1">>,
     <<"0", "0", "1", "0", "-", "0", "0", "1", "0", "-", "1", "0">>}

\* The keys a lookup of raw can ask the tables for.
KeysOf(raw) ==
    LET candidates == deriveLabelerProductCandidates(raw)
    IN  {candidates[i] : i \in 1..Len(candidates)}

CompanyEmail == <<"f", "@exactcarepharmacy.com">>

LookupHeaders ==
    {NoHeader, Header("Bearer", FALSE, << >>, NoArray),
     Header("Bearer", TRUE, CompanyEmail, NoArray),
     Header("Bearer", TRUE, <<"f", "@example.com">>, NoArray)}

\* One lookup request.  The tables hold rows under candidate keys of the
\* request only: no other row is ever read for it.
InitRequest(inputs, headers, tables) ==
    /\ middleware = "requirePermission_js"
    /\ primaryDb = PrimaryHandle
    /\ routes = registerRoutes(Undef)
    /\ users = {}
    /\ \E raw \in inputs :
        /\ req \in {NewReq("lookup", raw, "-", hdr) : hdr \in headers}
        /\ ndc_data \in (IF tables THEN SUBSET KeysOf(raw) ELSE {{}})
        /\ merged_ndc_data \in (IF tables THEN SUBSET KeysOf(raw) ELSE {{}})
        /\ comments \in (IF tables THEN {{}, {Comment(k, CompanyEmail) : k \in KeysOf(raw)}}
                        ELSE {{}})

\* Candidate derivation alone: every input, the request taken up to its first
\* await.
InitDerive ==
    /\ ModuleFresh({"sqlite_backup_js"}, {Env(TRUE, TRUE, TRUE, MaxLimit)},
                   {f \in LookupFiles : f.table = "hit"})
    /\ InitRequest(RawInputs, {NoHeader}, FALSE)

NextDerive ==
    \/ BootStep
    \/ Receive

SpecDerive == InitDerive /\ [][NextDerive]_vars

\* Lookups over primary and backup tables, with and without a backup handle
\* and with a backup file whose table is absent.
InitLookup ==
    /\ ModuleFresh({"sqlite_backup_js"}, DefaultEnvs,
                   {f \in LookupFiles : f.table \in {"hit", "broken"}})
    /\ InitRequest(LookupInputs, LookupHeaders, TRUE)

NextLookup ==
    \/ BootStep
    \/ Receive
    \/ Resume

SpecLookup == InitLookup /\ [][NextLookup]_vars

\* The comment routes from the evaluation of the server module on.
AuthHeaders ==
    {NoHeader, Header("Bearer", FALSE, << >>, NoArray)} \cup
    {Header("Bearer", TRUE, e, p) :
        e \in Emails, p \in {NoArray} \cup {Array(s) : s \in SUBSET Permissions}}

CommentKey == <<"1", "-", "1">>

InitAuth ==
    /\ ModuleFresh({"sqlite_backup_js"}, {Env(TRUE, TRUE, TRUE, MaxLimit)},
                   {f \in LookupFiles : f.table = "hit"})
    /\ middleware \in Middlewares
    /\ primaryDb = Undef
    /\ routes = NoRoutes
    /\ ndc_data = {}
    /\ merged_ndc_data = {}
    /\ comments \in {{}, {Comment(CommentKey, CompanyEmail)}}
    /\ users \in SUBSET {CompanyEmail}
    /\ req \in {NewReq("post", CommentKey, scope, hdr) :
                   scope \in {"ndc", "x"}, hdr \in AuthHeaders}
               \cup {NewReq("delete", CommentKey, "-", hdr) : hdr \in AuthHeaders}

NextAuth ==
    \/ RegisterRoutes
    \/ OpenPrimary
    \/ BootStep
    \/ Receive
    \/ Resume

SpecAuth == InitAuth /\ [][NextAuth]_vars


(***************************************************************************)
(* Properties of getNdcWithAssist.                                         *)
(***************************************************************************)
Returned(c) == call[c].pc = "returned"

\* What the late path yields from the primary lookup the call started.
LateResult(c) ==
    IF call[c].primary[1] \in PrimaryRows THEN PrimaryRecord(call[c].primary[1])
    ELSE NullRet

\* The primary lookup settled with a record before the timer fired.
FastHit(c) == call[c].first = "primary" /\ call[c].primary[1] \in PrimaryRows

\* C1: when the primary lookup settles with a record before the timer fires,
\* the call has returned exactly that record and getFromBackupByLabelerProduct
\* was not called.
C1_FastPrimaryWins ==
    \A c \in Calls :
        FastHit(c) =>
            /\ Returned(c)
            /\ call[c].ret = PrimaryRecord(call[c].primary[1])
            /\ call[c].backup = "uncalled"

\* A fast primary hit while the opened backup holds a record for the key.
C1_Witness ==
    /\ FastHit("a")
    /\ Returned("a")
    /\ backupDb # NoDb
    /\ backupDb.table = "hit"

\* C2: when the timer fires before the primary lookup settles and the backup
\* holds a record, the call returns the mapped backup record tagged
\* 'sqlite-backup'; it does so whether or not the primary lookup ever settles.
C2_BackupOnTimeout ==
    /\ [](\A c \in Calls :
            (call[c].first = "timer" /\ call[c].backup = "row") =>
                (Returned(c) /\ call[c].ret = Drug("B", "sqlite-backup")))
    /\ (call["a"].first = "timer" /\ call["a"].handle.table = "hit")
          ~> (Returned("a") /\ call["a"].ret = Drug("B", "sqlite-backup"))

\* The backup record was returned while the primary lookup is still pending.
C2_Witness ==
    /\ call["a"].first = "timer"
    /\ call["a"].ret = Drug("B", "sqlite-backup")
    /\ call["a"].primary[1] = "pending"

\* C3: when the timer fires first and the backup has no record, a call that has
\* returned and whose primary lookup has settled returned that lookup's record,
\* or not-found when the lookup ended empty or failed.
C3_LatePrimaryKept ==
    \A c \in Calls :
        ( /\ Returned(c)
          /\ call[c].first = "timer"
          /\ call[c].backup = "null"
          /\ call[c].primary[1] \in PrimaryOutcomes )
        => call[c].ret = LateResult(c)

\* C4: a call that has returned delivered one of the four outcomes; a backup
\* record only if no fast primary hit, a late primary record only if the backup
\* had none, not-found only if the backup had none and no primary lookup of the
\* call ended with a record.
C4_PreferenceOrder ==
    \A c \in Calls :
        Returned(c) =>
            /\ call[c].ret.kind \in {"record", "null"}
            /\ (call[c].ret = Drug("B", "sqlite-backup") => ~FastHit(c))
            /\ (call[c].ret.kind = "record" /\ call[c].ret.row \in PrimaryRows /\ ~FastHit(c)
                  => call[c].backup = "null")
            /\ (call[c].ret = NullRet =>
                  /\ call[c].backup = "null"
                  /\ \A i \in Invocations : call[c].primary[i] \notin PrimaryRows)

\* C5: a call whose backup query failed does not throw; it ends with the late
\* primary record or not-found.
C5_BackupFailureSwallowed ==
    \A c \in Calls :
        (Returned(c) /\ call[c].handle.table = "broken") =>
            /\ call[c].ret.kind # "threw"
            /\ (variant \in AsyncVariants => call[c].ret = LateResult(c))

\* A rejection counts as an empty result.
Norm(o) == IF o = "fail" THEN "empty" ELSE o

\* Two calls whose inputs differ at most in failure versus empty result of
\* primaryFn: same order of primary and timer, same backup handle.
SameUpToFailure(c, d) ==
    /\ \A i \in Invocations : Norm(call[c].primary[i]) = Norm(call[d].primary[i])
    /\ call[c].first = call[d].first
    /\ call[c].handle = call[d].handle
    /\ call[c].backup = call[d].backup

\* C6: two returned calls that differ only in primaryFn failing where the other
\* resolves empty have the same outcome, and no call throws unless its backup
\* query rejected.
C6_FailureIsEmpty ==
    /\ \A c, d \in Calls :
          (Returned(c) /\ Returned(d) /\ SameUpToFailure(c, d)) =>
              call[c].ret = call[d].ret
    /\ \A c \in Calls : call[c].ret.kind = "threw" => call[c].backup = "rejected"

\* One call saw primaryFn reject, the other saw it resolve empty, same timing.
C6_Witness ==
    /\ Returned("a") /\ Returned("b")
    /\ SameUpToFailure("a", "b")
    /\ call["a"].primary[1] = "fail"
    /\ call["b"].primary[1] = "empty"

C8_NoBackupDegrades ==
    backupDb = NoDb =>
        /\ \A c \in Calls :
              /\ call[c].ret.kind # "threw"
              /\ call[c].ret._source # "sqlite-backup"
              /\ (Returned(c) /\ variant \in AsyncVariants => call[c].ret = LateResult(c))
        /\ query.out = << >>
        /\ suggestIndex = << >>
        /\ \A n \in Ops : op[n].pc # "failed"

\* No backup path is set; a lookup went past the deadline and returned the late
\* primary record, and a non-empty suggestion query was answered.
C8_Witness ==
    /\ backupDb = NoDb
    /\ variant \in AsyncVariants
    /\ Returned("a")
    /\ call["a"].first = "timer"
    /\ call["a"].ret.kind = "record"
    /\ query.asked
    /\ query.q # << >>

\* C18: a call invokes primaryFn once; the late path awaits that invocation
\* and starts no second one.
C18_OnePrimaryQuery ==
    \A c \in Calls :
        /\ call[c].primary[2] = "unstarted"
        /\ (call[c].pc # "idle" => call[c].primary[1] # "unstarted")
        /\ (call[c].via = "late" => call[c].ret = PrimaryRecord(call[c].primary[1]))

\* C19: once the primary lookup has settled empty or failed before the timer
\* fired, the backup has been queried, whether or not the timer has fired
\* since.
C19_EmptyPrimaryGoesToBackup ==
    \A c \in Calls :
        (call[c].first = "primary" /\ call[c].primary[1] \in {"empty", "fail"}) =>
            call[c].backup # "uncalled"

\* The primary lookup settled empty, the backup statement is running and the
\* timer has not fired.
C19_Witness ==
    /\ call["a"].first = "primary"
    /\ call["a"].primary[1] = "empty"
    /\ call["a"].timer = "pending"
    /\ call["a"].backup = "pending"

(***************************************************************************)
(* Properties of buildSuggestIndex.                                        *)
(***************************************************************************)
\* Operation n completes in this step.
Completes(n) == op'[n].flip # op[n].flip

\* Every column set the loaded version tries fails on handle h.
AllAttemptsFail(h) ==
    \A k \in DOMAIN Attempts(variant) : ~SelectOk(h, Attempts(variant)[k])

\* C9: a build that ran on an opened source without v_ndc_suggest completes
\* without error and leaves the index empty.
C9_MissingViewEmptiesIndex ==
    [][\A n \in Ops :
          (Completes(n) /\ op'[n].h # NoDb /\ ~op'[n].h.view) =>
              (op'[n].pc = "done" /\ suggestIndex' = << >>)]_vars

\* C10: a build whose every column-set attempt failed although the view exists
\* completes without error and leaves the index empty.
C10_AllAttemptsFailEmptyIndex ==
    [][\A n \in Ops :
          ( /\ variant \in AsyncVariants
            /\ Completes(n)
            /\ op'[n].h # NoDb
            /\ op'[n].h.view
            /\ AllAttemptsFail(op'[n].h) ) =>
              (op'[n].pc = "done" /\ suggestIndex' = << >>)]_vars

\* The view of h has the base columns but neither substance nor strength.
MinimalView(h) == h # NoDb /\ h.view /\ h.base /\ ~h.sub /\ ~h.str

\* null, or a property the object does not have.
NoValue(x) == x = Null \/ x = Undef

\* C11: a build on a view without the substance and strength columns completes
\* without error and loads every row, up to the limit, in view order; no
\* suggestion then returned carries a substance or a strength.
C11_MinimalColumnsLoad ==
    [][\A n \in Ops :
          (Completes(n) /\ MinimalView(op'[n].h)) =>
              /\ op'[n].pc = "done"
              /\ suggestIndex' =
                    LoadIndex(variant, op'[n].h, BaseCols, env.limit)
              /\ Len(suggestIndex') = Len(Take(op'[n].h.rows, env.limit))
              /\ \A q \in Queries, l \in 1..MaxQueryLimit :
                    LET out == querySuggestRAM(variant, suggestIndex', q, l)
                    IN  \A k \in DOMAIN out :
                            NoValue(out[k].substance) /\ NoValue(out[k].strength)]_vars

\* C16: whenever a size is published it is the length of the published index,
\* and every build that completes without error leaves the published size
\* equal to the length of the index.
C16_SizeMatchesIndex ==
    /\ [](suggestSize # -1 => suggestSize = Len(suggestIndex))
    /\ [][\A n \in Ops :
             (Completes(n) /\ op'[n].pc = "done") =>
                 suggestSize' = Len(suggestIndex')]_vars

\* C17: while the file at the path is the one startup read, a reload that
\* completes (the build before it was startup's or an earlier reload's, on
\* the same content) completes without error and leaves the index, entry by
\* entry and in order, and the published size as they were.
C17_RebuildSameIndex ==
    [][(Completes("reload") /\ swaps = 0 /\ op["boot"].pc = "done") =>
          /\ op'["reload"].pc = "done"
          /\ suggestIndex' = suggestIndex
          /\ suggestSize' = suggestSize]_vars

\* Startup and a reload both built the three-row index from the same file.
C17_Witness ==
    /\ swaps = 0
    /\ op["boot"].pc = "done"
    /\ op["reload"].pc = "done"
    /\ op["reload"].h = dbFile
    /\ Len(suggestIndex) = 3
    /\ suggestSize = 3

\* The digits-only shadow of row r: its ndc_digits when it has one, else its
\* ndc10 without the non-digits.
Shadow(r) ==
    IF Truthy(r.ndc_digits) THEN r.ndc_digits ELSE OnlyDigits(StrOf(r.ndc10))

\* C20: after a build that loaded the view, the _digits of every entry is the
\* shadow of its row, so the digit pass for "2" matches every entry whose row
\* has no ndc_digits and an ndc10 starting with 2.
C20_DigitsShadow ==
    [][\A n \in Ops :
          ( /\ Completes(n)
            /\ op'[n].pc = "done"
            /\ op'[n].h # NoDb
            /\ op'[n].h.view
            /\ op'[n].h.base ) =>
              \A i \in DOMAIN suggestIndex' :
                  LET r == op'[n].h.rows[i] IN
                  /\ suggestIndex'[i]._digits = Shadow(r)
                  /\ (~Truthy(r.ndc_digits) /\ StartsWith(OnlyDigits(StrOf(r.ndc10)), <<"2">>)
                        => Matches(variant, 2, suggestIndex'[i], <<"2">>, <<"2">>))]_vars

\* C21: the published index never holds more entries than the limit the
\* builds are called with.
C21_IndexWithinLimit ==
    Len(suggestIndex) <= env.limit

\* Startup ran with limit 1 on a view of three rows and published one entry.
C21_Witness ==
    /\ env.limit = 1
    /\ op["boot"].pc = "done"
    /\ op["boot"].h # NoDb
    /\ Len(op["boot"].h.rows) = 3
    /\ Len(suggestIndex) = 1

\* C26: a build on a view that has the base columns completes without error
\* (sqlite-backup.js, part_000), and its entries carry the substance of their
\* rows when the view has that column and the configuration enables it, and
\* likewise the strength.
C26_OptionalColumnsKept ==
    [][\A n \in Ops :
          ( /\ variant \in AsyncVariants
            /\ Completes(n)
            /\ op'[n].h # NoDb
            /\ op'[n].h.view
            /\ op'[n].h.base ) =>
              /\ op'[n].pc = "done"
              /\ Len(suggestIndex') = Len(Take(op'[n].h.rows, env.limit))
              /\ \A i \in DOMAIN suggestIndex' :
                    LET r == op'[n].h.rows[i] IN
                    /\ (op'[n].h.sub /\ env.substance =>
                          suggestIndex'[i].substance = OrElse(r.substance, Null))
                    /\ (op'[n].h.str /\ env.strength =>
                          suggestIndex'[i].strength = OrElse(r.strength, Null))]_vars

\* What a build that reads handle h can publish: the empty index, or the load
\* of one of its column sets that h has.
CompleteLoads(h) ==
    {<< >>} \cup
    {LoadIndex(variant, h, Attempts(variant)[k], env.limit) :
        k \in {j \in DOMAIN Attempts(variant) : SelectOk(h, Attempts(variant)[j])}}

\* No startup or reload is suspended, and none ended with an error.
Quiescent == \A n \in AllOps : op[n].pc \in {"idle", "done"}

\* C27: once every reload has completed, the published index is a load of the
\* backup handle that is open, the one point lookups use (sqlite-backup.js,
\* part_000).
C27_IndexFromOpenHandle ==
    ( /\ variant \in AsyncVariants
      /\ Quiescent
      /\ op["boot"].pc = "done"
      /\ backupDb # NoDb ) =>
        suggestIndex \in CompleteLoads(backupDb)

(***************************************************************************)
(* Properties of querySuggestRAM.                                          *)
(***************************************************************************)
\* C12: no index entry appears twice in a query result (the rows of the
\* modelled views have pairwise different lp, so two equal elements of `out`
\* are one index entry pushed twice).
C12_NoEntryTwice ==
    \A i, j \in DOMAIN query.sel : i # j => query.sel[i] # query.sel[j]

\* Entry r matches pass p of a query with lowered text s and digits d; the
\* digit pass only exists for a query that has digits.
MatchesPass(p, r, s, d) ==
    /\ p = 2 => d # << >>
    /\ Matches(variant, p, r, s, d)

\* out splits into a run of pass-1 matches, then a run of pass-2 matches, then
\* a run of pass-3 matches.
InPassOrder(out, s, d) ==
    \E i, j \in 0..Len(out) :
        /\ i <= j
        /\ \A k \in 1..i : MatchesPass(1, out[k], s, d)
        /\ \A k \in (i + 1)..j : MatchesPass(2, out[k], s, d)
        /\ \A k \in (j + 1)..Len(out) : MatchesPass(3, out[k], s, d)

\* No entry of index that matches pass p is missing from out while out holds
\* an entry that matches no pass up to p.
NoneSkipped(index, out, s, d) ==
    \A p \in 1..2 :
        \A i \in DOMAIN index :
            (MatchesPass(p, index[i], s, d) /\ \A k \in DOMAIN out : out[k] # index[i]) =>
                \A k \in DOMAIN out :
                    \E p1 \in 1..p : MatchesPass(p1, out[k], s, d)

\* C13: the entries a query pushed are in pass order (lp prefix, digit prefix,
\* name contains), and an entry is left out only when every entry pushed
\* matches a pass at least as early as each pass it matches.
C13_PassOrder ==
    [][query' # query =>
         /\ InPassOrder(query'.sel, ToLower(query'.q), OnlyDigits(query'.q))
         /\ NoneSkipped(suggestIndex, query'.sel, ToLower(query'.q), OnlyDigits(query'.q))
         /\ query'.out = [k \in DOMAIN query'.sel |-> Lean(variant, query'.sel[k])]]_vars

\* The query "2" returned RowB and RowC (lp prefix) before RowA (name
\* contains), against the order of the index.
C13_Witness ==
    /\ query.q = <<"2">>
    /\ Len(query.sel) = 3
    /\ query.sel[1].lp = RowB.lp
    /\ query.sel[2].lp = RowC.lp
    /\ query.sel[3].lp = RowA.lp
    /\ Len(suggestIndex) = 3
    /\ suggestIndex[1].lp = RowA.lp

\* C14: a query returns at most `limit` entries.
C14_AtMostLimit ==
    query.asked => Len(query.out) <= query.limit

\* Two entries match the query "o" and the limit is 1.
C14_Witness ==
    /\ query.q = <<"o">>
    /\ query.limit = 1
    /\ Len(query.out) = 1
    /\ Len(suggestIndex) = 3

\* C15: suggestIndex changes only in the step that completes a build, from the
\* collection published before to the whole collection that build loaded; a
\* query runs in one step on the collection published at that moment; and a
\* query can run in every state in which requests are served, whatever a
\* reload is doing.
C15_ReadersSeeWholeIndex ==
    /\ [](listening => ENABLED Query(<< >>, 1))
    /\ [][ /\ (suggestIndex' # suggestIndex =>
                \E n \in Ops :
                    /\ Completes(n)
                    /\ op'[n].pc = "done"
                    /\ suggestIndex' \in CompleteLoads(op'[n].h))
           /\ (query' # query =>
                /\ suggestIndex' = suggestIndex
                /\ op' = op
                /\ query'.sel = Selected(variant, suggestIndex, query'.q, query'.limit)) ]_vars

\* A query was answered from the loaded index while a reload was suspended on
\* a replaced file that has no suggestion view.
C15_Witness ==
    /\ query.busy
    /\ query.out # << >>
    /\ suggestIndex # << >>
    /\ op["reload"].pc \in InProgress
    /\ op["reload"].h # NoDb
    /\ ~op["reload"].h.view

\* The place of entry e in index (the entries of an index differ in lp).
PosIn(index, e) == CHOOSE i \in DOMAIN index : index[i] = e

\* out splits into three runs, one per pass, and within each run the entries
\* are in the order of index.
InLoadOrderPerPass(index, out, s, d) ==
    \E i, j \in 0..Len(out) :
        /\ i <= j
        /\ \A k \in 1..i : MatchesPass(1, out[k], s, d)
        /\ \A k \in (i + 1)..j : MatchesPass(2, out[k], s, d)
        /\ \A k \in (j + 1)..Len(out) : MatchesPass(3, out[k], s, d)
        /\ \A k, m \in DOMAIN out :
              ( /\ k < m
                /\ \/ m <= i
                   \/ (k > i /\ m <= j)
                   \/ k > j ) =>
                  PosIn(index, out[k]) < PosIn(index, out[m])

\* C22: of two entries a query pushed in the same pass, the one loaded
\* earlier comes first.
C22_LoadOrderWithinPass ==
    [][query' # query =>
         /\ \A k \in DOMAIN query'.sel : \E i \in DOMAIN suggestIndex :
                suggestIndex[i] = query'.sel[k]
         /\ InLoadOrderPerPass(suggestIndex, query'.sel,
                               ToLower(query'.q), OnlyDigits(query'.q))]_vars

\* The name pass of the query "o" pushed RowA and then RowB, as loaded.
C22_Witness ==
    /\ query.q = <<"o">>
    /\ Len(query.sel) = 2
    /\ query.sel[1].lp = RowA.lp
    /\ query.sel[2].lp = RowB.lp
    /\ Len(suggestIndex) = 3
    /\ suggestIndex[1].lp = RowA.lp
    /\ suggestIndex[2].lp = RowB.lp

(***************************************************************************)
(* Properties of the lookup handler and of candidate derivation.           *)
(***************************************************************************)
\* The request has been taken up by its handler.
Received == req.pc # "idle"

\* A segment without its leading zeros; a segment of zeros keeps one.
Canonical(seg) ==
    LET k == CHOOSE n \in 1..Len(seg) :
                 /\ \A j \in 1..(n - 1) : seg[j] = "0"
                 /\ seg[n] # "0" \/ n = Len(seg)
    IN  SubSeq(seg, k, Len(seg))

\* The candidate of the segmentation that gives the labeler the first la
\* digits and the product the next lb.
Segmented(d, la, lb) ==
    Canonical(SubSeq(d, 1, la)) \o <<"-">> \o Canonical(SubSeq(d, la + 1, la + lb))

NoDuplicates(list) == \A i, j \in DOMAIN list : list[i] = list[j] => i = j

FirstAt(list, x) == CHOOSE i \in DOMAIN list : list[i] = x /\ \A j \in 1..(i - 1) : list[j] # x

\* list is guesses with every repetition after the first removed.
DuplicatesRemoved(list, guesses) ==
    /\ NoDuplicates(list)
    /\ {list[i] : i \in DOMAIN list} = {guesses[i] : i \in DOMAIN guesses}
    /\ \A i, j \in DOMAIN list :
          i < j => FirstAt(guesses, list[i]) < FirstAt(guesses, list[j])

\* C25: ten contiguous digits give the 4-4, 5-3 and 5-4 candidates in that
\* order, repetitions removed and leading zeros stripped from each segment;
\* eleven contiguous digits give the 5-4 candidate alone; no list of
\* candidates holds a candidate twice.
C25_CandidatesOfDigits ==
    Received =>
        /\ (AllDigits(req.raw) /\ Len(req.raw) = 10) =>
              DuplicatesRemoved(req.candidates,
                                <<Segmented(req.raw, 4, 4), Segmented(req.raw, 5, 3),
                                  Segmented(req.raw, 5, 4)>>)
        /\ (AllDigits(req.raw) /\ Len(req.raw) = 11) =>
              req.candidates = <<Segmented(req.raw, 5, 4)>>
        /\ NoDuplicates(req.candidates)

\* Ten digits whose 5-3 and 5-4 guesses coincide: two candidates are left.
C25_Witness ==
    /\ Received
    /\ AllDigits(req.raw)
    /\ Len(req.raw) = 10
    /\ Segmented(req.raw, 5, 3) = Segmented(req.raw, 5, 4)
    /\ req.candidates = <<Segmented(req.raw, 4, 4), Segmented(req.raw, 5, 4)>>
    /\ Len(req.raw) > Len(req.candidates[1]) + Len(req.candidates[2])

\* The positions of the dashes of a string.
Dashes(t) == {i \in DOMAIN t : t[i] = "-"}

\* Blanks around it aside, raw is three non-empty groups of digits with a
\* dash between them.
ThreeDigitGroups(raw) ==
    LET t == Trim(raw)
    IN  /\ Cardinality(Dashes(t)) = 2
        /\ \A i \in DOMAIN t \ Dashes(t) : t[i] \in NdcDigits
        /\ \A i \in Dashes(t) : i \notin {1, Len(t)} /\ i + 1 \notin Dashes(t)

\* Input that has no labeler/product segments: empty, or neither three
\* groups of digits nor nine digits in all.
Undecomposable(raw) ==
    \/ raw = << >>
    \/ ~ThreeDigitGroups(raw) /\ Cardinality({i \in DOMAIN raw : raw[i] \in NdcDigits}) < 9

\* C24: for input that cannot be decomposed the candidate list is empty and
\* the lookup answers 400 at once, with no query to the primary or the backup.
C24_UndecomposableRejected ==
    (Received /\ req.route = "lookup" /\ Undecomposable(req.raw)) =>
        /\ req.candidates = << >>
        /\ req.pc = "done"
        /\ req.status = 400
        /\ req.log = << >>

\* Eight digits behind one dash were rejected without a query.
C24_Witness ==
    /\ req.status = 400
    /\ req.log = << >>
    /\ Cardinality(Dashes(req.raw)) = 1
    /\ Len(req.raw) = 8
    /\ ndc_data = {}

\* What a logged query finds.
Hits(entry) ==
    IF entry[1] = "primary" THEN entry[2] \in ndc_data
    ELSE backupDb # NoDb /\ backupDb.table # "broken" /\ entry[2] \in merged_ndc_data

AskedOf(source) == SelectSeq(req.log, LAMBDA e : e[1] = source)

\* C23: the candidates are asked of the primary in derivation order up to
\* the first hit; the backup is asked, in the same order and up to its first
\* hit, only after every candidate missed in the primary; the record sent is
\* the first hit of that sequence, and 404 is sent only when every candidate
\* missed in both.
C23_PrimaryThenBackupInOrder ==
    (Received /\ req.route = "lookup" /\ req.candidates # << >>) =>
        LET c == req.candidates
            p == AskedOf("primary")
            b == AskedOf("backup")
            n == Len(req.log)
        IN  /\ req.log = p \o b
            /\ Len(p) <= Len(c) /\ Len(b) <= Len(c)
            /\ \A k \in DOMAIN p : p[k][2] = c[k]
            /\ \A k \in DOMAIN b : b[k][2] = c[k]
            /\ \A k \in 1..(n - 1) : ~Hits(req.log[k])
            /\ b # << >> => Len(p) = Len(c) /\ \A k \in DOMAIN c : c[k] \notin ndc_data
            /\ req.pc = "done" => req.status \in {200, 404, 500}
            /\ req.status = 200 =>
                  /\ Hits(req.log[n])
                  /\ req.body.drug = req.log[n][2]
                  /\ req.body._source =
                        (IF req.log[n][1] = "primary" THEN "primary-db" ELSE "sqlite-backup")
            /\ (req.status = 200 /\ \E k \in DOMAIN c : c[k] \in ndc_data) =>
                  req.body._source = "primary-db"
            /\ req.status = 404 =>
                  /\ Len(p) = Len(c) /\ Len(b) = Len(c)
                  /\ \A k \in DOMAIN req.log : ~Hits(req.log[k])
            /\ req.status = 500 => b # << >> /\ backupDb.table = "broken"

\* The second candidate was found in the primary although the backup holds
\* the first: the backup was never asked.
C23_Witness ==
    /\ req.status = 200
    /\ Len(req.candidates) = 3
    /\ req.log = <<<<"primary", req.candidates[1]>>, <<"primary", req.candidates[2]>>>>
    /\ req.body._source = "primary-db"
    /\ req.body.drug = req.candidates[2]
    /\ Hits(<<"backup", req.candidates[1]>>)

\* The request carried a token that verifies and whose email is in the
\* company domain.
CompanyToken(hdr) ==
    /\ hdr.scheme = "Bearer"
    /\ hdr.valid
    /\ EndsWith(ToLower(hdr.email), CompanyDomain)

\* The comments stored for the record of a lookup.
Stored == CommentsFor(req.candidates)

\* C28: a lookup response carries the comments stored for the record exactly
\* when the request had a valid token with a company email; every other
\* response carries an empty list.
C28_CommentsForCompanyTokens ==
    (req.route = "lookup" /\ req.status = 200) =>
        req.body.comments = (IF CompanyToken(req.hdr) THEN Stored ELSE {})

(***************************************************************************)
(* Properties of the permission middleware.                                *)
(***************************************************************************)
\* requireAuth and requireExactCareDomain have let the request through, so
\* requirePermission has run up to its fallback query at least.
ReachedPermission ==
    /\ req.route \in {"post", "delete"}
    /\ req.user.defined
    /\ EndsWith(req.user.email, CompanyDomain)

\* The verified token carries the permission the route requires.
TokenHasRequired ==
    /\ req.hdr.permissions.isArray
    /\ routes[req.route].required \in req.hdr.permissions.items

\* The route allows the approved-commenter fallback and the users row of the
\* caller has isApprovedCommenter = 1.
QualifiesForFallback ==
    /\ req.route = "post"
    /\ req.user.email \in users

\* C29: behind requireAuth, a request whose token has every required
\* permission is passed on by requirePermission exactly once and gets no 403
\* from it; a request whose token lacks one and that does not qualify for the
\* fallback gets 403 and is never passed on.
C29_PermissionDecides ==
    (ReachedPermission /\ req.pc # "fallback") =>
        /\ TokenHasRequired => req.nexts = 1 /\ ~req.denied
        /\ (~TokenHasRequired /\ ~QualifiesForFallback) =>
              req.nexts = 0 /\ req.denied /\ req.status = 403

\* C30: once the server listens, a POST /comments of a user whose token lacks
\* comment:write and whose users row has isApprovedCommenter = 1 is passed on
\* to the handler.
C30_ApprovedCommenterPasses ==
    (listening /\ ReachedPermission /\ req.pc # "fallback" /\ req.route = "post"
        /\ ~TokenHasRequired /\ req.user.email \in users) =>
        req.nexts = 1 /\ ~req.denied

====
